---- MODULE Spec2Model ----
(***************************************************************************)
(* Model of the session layer of the IAM console front end:                *)
(*   - the HTTP client of services/api.ts (request interceptor, response   *)
(*     interceptor with its 401 refresh-and-replay branch, clearTokens,    *)
(*     api.login, api.logout),                                             *)
(*   - the session store useAuthStore of store/authStore.ts (login,        *)
(*     logout, refreshToken, clearError, setLoading, persist/partialize)   *)
(*     and the checkAuth action of the store variant kept in api.ts,       *)
(*   - the browser's localStorage and window.location.                     *)
(* JavaScript runs one macrotask at a time: an async function runs from    *)
(* one network response to the next await of a network call without        *)
(* interleaving, so each action below is one such run.  The server is the  *)
(* environment: it answers every request with any status.  clearError and  *)
(* setLoading only write isLoading and are left out.                       *)
(***************************************************************************)
EXTENDS Integers, Sequences, FiniteSets, Bags, TLC

\* ------------------------------------------------------------------ bounds
MaxCalls == 2      \* operations that may be in flight at the same time
MaxSends == 3      \* cap on the sends of one request (the code reaches 2)

\* ------------------------------------------------------------ value spaces
Null == "<null>"                 \* JavaScript null (also: key absent)
Undefined == "<undefined>"       \* JavaScript undefined
AccessTokens == {"a1", "a2"}     \* access tokens the server may issue
RefreshTokens == {"r1"}          \* refresh tokens the server may issue
UserInfos == {"u1", "u2"}     \* identities the server may return
ErrorStatuses == {401, 500}      \* 500 stands for every failure but 401

\* JavaScript truthiness of a string-or-null value (if (token) ...).
Truthy(v) == v \notin {Null, Undefined, ""}

\* String(v): what localStorage.setItem(key, v) stores and what a template
\* literal `${v}` interpolates.
JSString(v) == IF v = Undefined THEN "undefined"
               ELSE IF v = Null THEN "null" ELSE v

\* Property read obj.key / destructuring const { key } = obj: a property the
\* object does not have reads as undefined.
Get(obj, key) == IF key \in DOMAIN obj THEN obj[key] ELSE Undefined

\* JSON.stringify / JSON.parse of an identity snapshot.
JSONStringify(u) == "{" \o u \o "}"
JSONParse(s) == IF \E u \in UserInfos : JSONStringify(u) = s
                THEN CHOOSE u \in UserInfos : JSONStringify(u) = s
                ELSE Null

\* -------------------------------------------------------- response bodies
\* Every success body is the envelope {success, data}.
LoginBody(at, rt, u) ==
    [success |-> TRUE,
     data |-> [accessToken |-> at, refreshToken |-> rt, userInfo |-> u]]
RefreshBody(at, u) ==
    [success |-> TRUE, data |-> [accessToken |-> at, userInfo |-> u]]
PlainBody == [success |-> TRUE]
ErrorBody == [success |-> FALSE]

VARIABLES
    store,        \* useAuthStore state: user, token, refreshToken,
                  \* isAuthenticated, isLoading
    authStorage,  \* localStorage['auth-storage'], written by persist
    ls,           \* localStorage keys accessToken, refreshToken, user
    location,     \* window.location.href
    calls,        \* the bag of operations in flight (awaiting the network)
    ev            \* the step just taken and what its caller observed

\* The resource stores (users; roles and permissions) and the backend they
\* mirror.  The stores share no state with each other or with the session
\* store, and each sees of the HTTP client only whether its request resolved
\* or rejected; within the authorization store the collection operations
\* (roles, permissions, isLoading, error) and the per-user cache operations
\* (userRoles, userPermissions) write disjoint fields.  A behaviour drives
\* one of these at a time: `focus` names it.
VARIABLES
    focus,        \* the store the presentation layer is driving
    userStore,    \* useUserStore state: users, currentUser, isLoading, error
    authzStore,   \* useAuthorizationStore state: roles, permissions,
                  \* userRoles, userPermissions, isLoading, error
    server,       \* the backend's user records and role grants
    pending,      \* the bag of resource-store operations in flight
    started,      \* how many requests the resource stores have committed to
    rev           \* the resource-store step just taken and its outcome

sessionVars == <<store, authStorage, ls, location, calls, ev>>
resourceVars == <<userStore, authzStore, server, pending, started, rev>>
vars == <<sessionVars, focus, resourceVars>>

NoPre == [none |-> TRUE]

\* ---------------------------------------------------------- session store
InitialState == [user |-> Null, token |-> Null, refreshToken |-> Null,
                 isAuthenticated |-> FALSE, isLoading |-> FALSE]

partialize(state) ==
    [user |-> state.user, token |-> state.token,
     refreshToken |-> state.refreshToken,
     isAuthenticated |-> state.isAuthenticated]

\* Rehydration: the persisted subset merged over the initial state.
rehydrate(snapshot) ==
    [user |-> snapshot.user, token |-> snapshot.token,
     refreshToken |-> snapshot.refreshToken,
     isAuthenticated |-> snapshot.isAuthenticated,
     isLoading |-> InitialState.isLoading]

setLoadingState(state, loading) == [state EXCEPT !.isLoading = loading]


\* Mutant: the body is destructured without unwrapping the envelope.
loginSuccessStateUnwrapped(state, body) ==
    [state EXCEPT !.user = Get(body, "userInfo"),
                  !.token = Get(body, "accessToken"),
                  !.refreshToken = Get(body, "refreshToken"),
                  !.isAuthenticated = TRUE,
                  !.isLoading = FALSE]

\* login, success: response = api.login(...) is the body; response.data is
\* destructured.
loginSuccessState(state, body) ==
    LET data == Get(body, "data") IN
    [state EXCEPT !.user = Get(data, "userInfo"),
                  !.token = Get(data, "accessToken"),
                  !.refreshToken = Get(data, "refreshToken"),
                  !.isAuthenticated = TRUE,
                  !.isLoading = FALSE]

loginSuccessStorage(l, body) ==
    LET data == Get(body, "data") IN
    [l EXCEPT !.accessToken = JSString(Get(data, "accessToken")),
              !.refreshToken = JSString(Get(data, "refreshToken"))]

loginFailureState(state) == [state EXCEPT !.isLoading = FALSE]

logoutState(state) ==
    [state EXCEPT !.user = Null, !.token = Null, !.refreshToken = Null,
                  !.isAuthenticated = FALSE, !.isLoading = FALSE]


\* Mutant: the refresh handler copies login's set() and also takes a
\* refreshToken from the response.
refreshSuccessStateRotates(state, body) ==
    LET data == Get(body, "data") IN
    [state EXCEPT !.token = Get(data, "accessToken"),
                  !.user = Get(data, "userInfo"),
                  !.refreshToken = Get(data, "refreshToken"),
                  !.isAuthenticated = TRUE]

\* refreshToken, success: response = api.post(...) is the axios response;
\* response.data is the body and response.data.data is destructured.
refreshSuccessState(state, body) ==
    LET data == Get(body, "data") IN
    [state EXCEPT !.token = Get(data, "accessToken"),
                  !.user = Get(data, "userInfo"),
                  !.isAuthenticated = TRUE]

refreshSuccessStorage(l, body) ==
    LET data == Get(body, "data") IN
    [l EXCEPT !.accessToken = JSString(Get(data, "accessToken"))]


\* Mutant: the failure handler forgets the authenticated flag.
refreshFailureStateKeepsFlag(state) ==
    [state EXCEPT !.user = Null, !.token = Null, !.refreshToken = Null]

refreshFailureState(state) ==
    [state EXCEPT !.user = Null, !.token = Null, !.refreshToken = Null,
                  !.isAuthenticated = FALSE]

\* checkAuth of the store variant in api.ts.
checkAuthState(state, l) ==
    IF Truthy(l.accessToken) /\ Truthy(l.user)
    THEN [state EXCEPT !.token = l.accessToken,
                       !.user = JSONParse(l.user),
                       !.isAuthenticated = TRUE]
    ELSE state


\* Mutant: the refresh token survives the clean-up.
clearTokensKeepsRefresh(l) ==
    [l EXCEPT !.accessToken = Null, !.user = Null]

\* ------------------------------------------------------------- HTTP client
clearTokens(l) ==
    [l EXCEPT !.accessToken = Null, !.refreshToken = Null, !.user = Null]


\* Mutant: the interceptor attaches nothing.
requestInterceptorAttachesNothing(l, header) == header

\* Request interceptor: the Authorization header of a request sent now.
\* `header` is what the config already carries.
requestInterceptor(l, header) ==
    IF Truthy(l.accessToken) THEN l.accessToken ELSE header

\* Mutant: the refresh is attempted without looking for a refresh token.
startsRefreshWithoutToken(status, retry, l) == status = 401 /\ ~retry

\* Response interceptor, error handler: does this error start a refresh?
startsRefresh(status, retry, l) ==
    status = 401 /\ ~retry /\ Truthy(l.refreshToken)


\* Mutant: the handler never flags the request.
retryFlagNeverSet(status, retry) == retry

\* Response interceptor, error handler: the _retry flag after the handler.
retryFlag(status, retry) == IF status = 401 /\ ~retry THEN TRUE ELSE retry

\* Response interceptor, refresh succeeded: const { accessToken } =
\* response.data, where response is the axios response of the refresh call.
refreshedAccessToken(body) == Get(body, "accessToken")

refreshedStorage(l, body) ==
    [l EXCEPT !.accessToken = JSString(refreshedAccessToken(body))]


\* What each operation does once its request has settled (ok: the client's
\* promise resolved with `body`; otherwise it rejected).
settleState(op, ok, body, state) ==
    CASE op = "login" -> IF ok THEN loginSuccessState(state, body)
                         ELSE loginFailureState(state)
      [] op = "logout" -> logoutState(state)
      [] op = "refreshToken" -> IF ok THEN refreshSuccessState(state, body)
                                ELSE refreshFailureState(state)
      [] OTHER -> state


\* Mutant: logout cleans the storage only when its server call succeeded.
settleStorageUnlessFailed(op, ok, body, l) ==
    CASE op = "login" -> IF ok THEN loginSuccessStorage(l, body) ELSE l
      [] op = "logout" -> IF ok THEN clearTokens(l) ELSE l
      [] op = "refreshToken" -> IF ok THEN refreshSuccessStorage(l, body)
                                ELSE l
      [] OTHER -> l

\* logout: api.logout() ends with clearTokens(), then the store removes the
\* keys again.
settleStorage(op, ok, body, l) ==
    CASE op = "login" -> IF ok THEN loginSuccessStorage(l, body) ELSE l
      [] op = "logout" -> clearTokens(l)
      [] op = "refreshToken" -> IF ok THEN refreshSuccessStorage(l, body)
                                ELSE l
      [] OTHER -> l

\* What the operation's own caller observes: logout swallows the failure of
\* its request, the others re-raise it.
settleResult(op, ok) ==
    IF op = "logout" \/ ok THEN "resolved" ELSE "rejected"


\* Mutant: the snapshot is written on login only.
persistOnLoginOnly(op, state, snapshot) ==
    IF op = "login" THEN partialize(state) ELSE snapshot

\* persist: every set() of the store rewrites the snapshot.
persist(op, state, snapshot) ==
    IF op \in {"login", "logout", "refreshToken"} THEN partialize(state)
    ELSE snapshot

\* ------------------------------------------------------------------ events
\* The step just taken: the operation, what the client's promise (http) and
\* the operation's promise (res) did, the status received, the request's
\* _retry flag when the response came, its sends and refresh calls so far,
\* the body received, the Authorization token of the request sent by this
\* step, the refresh token passed to the refresh endpoint by this step and,
\* for an operation that ran alone, the state it started from.
Event(op, step, http, res, status, wasRetry, sends, refreshes, body, bearer, rt) ==
    [op |-> op, step |-> step, http |-> http, res |-> res,
     status |-> status, wasRetry |-> wasRetry, sends |-> sends,
     refreshes |-> refreshes, body |-> body, bearer |-> bearer, rt |-> rt,
     pre |-> NoPre]

InFlight == BagToSet(calls)
NoneActive == calls = EmptyBag

Put(call) == SetToBag({call})

RECURSIVE Copies(_, _)
Copies(S, bag) ==
    IF S = {} THEN 0
    ELSE LET x == CHOOSE x \in S : TRUE IN bag[x] + Copies(S \ {x}, bag)

\* The calls already in flight are no longer alone once another operation
\* starts or a synchronous store action runs: they forget the state they
\* started from.
Forget(call) == [call EXCEPT !.pre = NoPre]
Disturbed ==
    LET T == {Forget(x) : x \in InFlight} IN
    [y \in T |-> Copies({x \in InFlight : Forget(x) = y}, calls)]

\* A request handed to the client.
NewCall(op, pre) ==
    [op |-> op, st |-> "sent", retry |-> FALSE, sends |-> 1, refreshes |-> 0,
     pre |-> IF NoneActive THEN pre ELSE NoPre]

\* ------------------------------------------------- resource stores: state
MaxPending == 2    \* resource-store operations in flight at the same time
MaxUsers == 2      \* user records the backend creates (ids 1 .. MaxUsers)
MaxOps == 4        \* requests the resource stores send in one behaviour

UserNames == {"n1", "n2"}            \* the editable part of a user record
NewNames == {"n1"}                   \* the names users are created with
UserIds == 1 .. MaxUsers
RoleIds == {"ro1", "ro2"}            \* role records, by id
PermissionIds == {"p1"}              \* permission records, by id
Subjects == {"x1", "x2"}             \* user ids of the role/permission caches
ServerErrors == {Undefined, "E"}     \* error.response?.data?.error

\* A user record; currentUser: null is the record with no id.
User(userId, name) == [userId |-> userId, name |-> name]
NullUser == User(0, Null)

InitialUserState ==
    [users |-> <<>>, currentUser |-> NullUser, isLoading |-> FALSE,
     error |-> Null]

\* userRoles and userPermissions are objects keyed by user id: {} at first.
EmptyObject == [x \in {} |-> <<>>]

InitialAuthorizationState ==
    [roles |-> <<>>, permissions |-> <<>>, userRoles |-> EmptyObject,
     userPermissions |-> EmptyObject, isLoading |-> FALSE, error |-> Null]

\* The backend: its user table, the next id it assigns and the roles it has
\* granted to each subject.
InitialServer ==
    [users |-> <<>>, nextId |-> 1, roles |-> <<>>, permissions |-> <<>>,
     grants |-> [userId \in Subjects |-> <<>>]]

\* `value` is what the operation returned to its caller: nothing, except for
\* checkPermission.
ResourceEvent(st, op, step, res, userId, serverError) ==
    [store |-> st, op |-> op, step |-> step, res |-> res, userId |-> userId,
     serverError |-> serverError, value |-> Undefined]

NoResourceEvent ==
    ResourceEvent("none", "none", "init", "none", 0, Null)

ResourcesAtRest ==
    /\ userStore = InitialUserState
    /\ authzStore = InitialAuthorizationState
    /\ server = InitialServer
    /\ pending = EmptyBag
    /\ started = 0
    /\ rev = NoResourceEvent

Init ==
    /\ store = InitialState
    /\ authStorage = partialize(InitialState)
    /\ \E u \in UserInfos \cup {Null} :
          ls = [accessToken |-> Null, refreshToken |-> Null,
                user |-> IF u = Null THEN Null ELSE JSONStringify(u)]
    /\ location = "/"
    /\ calls = EmptyBag
    /\ ev = Event("none", "init", "none", "none", 0, FALSE, 0, 0, ErrorBody,
                  Null, Null)
    /\ focus = "session"
    /\ ResourcesAtRest

StartEvent(op) ==
    Event(op, "start", "pending", "pending", 0, FALSE, 1, 0, ErrorBody,
          requestInterceptor(ls, Null), Null)

\* ------------------------------------------------------- operation starts
login ==
    /\ BagCardinality(calls) < MaxCalls
    /\ store' = setLoadingState(store, TRUE)
    /\ authStorage' = partialize(store')
    /\ calls' = Disturbed (+)
                Put(NewCall("login", [store |-> partialize(store), ls |-> ls]))
    /\ ev' = StartEvent("login")
    /\ UNCHANGED <<ls, location>>

\* logout -> api.logout: the server call is made only when an access token
\* is stored; without it the whole logout runs to its end at once.
logout ==
    /\ BagCardinality(calls) < MaxCalls
    /\ \/ /\ Truthy(ls.accessToken)
          /\ calls' = Disturbed (+) Put(NewCall("logout", NoPre))
          /\ ev' = StartEvent("logout")
          /\ UNCHANGED <<store, authStorage, ls, location>>
       \/ /\ ~Truthy(ls.accessToken)
          /\ store' = settleState("logout", TRUE, PlainBody, store)
          /\ ls' = settleStorage("logout", TRUE, PlainBody, ls)
          /\ authStorage' = persist("logout", store', authStorage)
          /\ calls' = Disturbed
          /\ ev' = Event("logout", "noRequest", "none",
                         settleResult("logout", TRUE), 0, FALSE, 0, 0,
                         ErrorBody, Null, Null)
          /\ UNCHANGED location


\* Mutant: the missing token is handled like a failed refresh, clearing the
\* session before the error is raised.
storeRefreshTokenClearsFirst ==
    /\ BagCardinality(calls) < MaxCalls
    /\ \/ /\ ~Truthy(store.refreshToken)
          /\ store' = refreshFailureState(store)
          /\ authStorage' = partialize(store')
          /\ ev' = Event("refreshToken", "noRequest", "none", "rejected", 0,
                         FALSE, 0, 0, ErrorBody, Null, Null)
          /\ UNCHANGED <<ls, location, calls>>
       \/ /\ Truthy(store.refreshToken)
          /\ calls' = Disturbed (+) Put(NewCall("refreshToken", NoPre))
          /\ ev' = [StartEvent("refreshToken") EXCEPT
                       !.rt = store.refreshToken]
          /\ UNCHANGED <<store, authStorage, ls, location>>

\* The store's refreshToken: throws before any request when the store holds
\* no refresh token.
storeRefreshToken ==
    /\ BagCardinality(calls) < MaxCalls
    /\ \/ /\ ~Truthy(store.refreshToken)
          /\ ev' = Event("refreshToken", "noRequest", "none", "rejected", 0,
                         FALSE, 0, 0, ErrorBody, Null, Null)
          /\ UNCHANGED <<store, authStorage, ls, location, calls>>
       \/ /\ Truthy(store.refreshToken)
          /\ calls' = Disturbed (+) Put(NewCall("refreshToken", NoPre))
          /\ ev' = [StartEvent("refreshToken") EXCEPT
                       !.rt = store.refreshToken]
          /\ UNCHANGED <<store, authStorage, ls, location>>

\* Any other request through the client (api.get, api.post, ...).
request ==
    /\ BagCardinality(calls) < MaxCalls
    /\ calls' = Disturbed (+) Put(NewCall("request", NoPre))
    /\ ev' = StartEvent("request")
    /\ UNCHANGED <<store, authStorage, ls, location>>

\* ------------------------------------------------------- server responses
\* The success bodies the server may send for an operation's request.
SuccessBodies(op) ==
    CASE op = "login" ->
           {LoginBody(at, rt, u) :
               at \in AccessTokens, rt \in RefreshTokens, u \in UserInfos}
      [] op = "refreshToken" ->
           {RefreshBody(at, u) : at \in AccessTokens, u \in UserInfos}
      [] OTHER -> {PlainBody}

AwaitingServer(call) == call.st \in {"sent", "replayed"}

\* The request settles: the operation that issued it runs to its end.
Settle(call, step, ok, status, body, l) ==
    /\ store' = settleState(call.op, ok, body, store)
    /\ ls' = settleStorage(call.op, ok, body, l)
    /\ authStorage' = persist(call.op, store', authStorage)
    /\ calls' = calls (-) Put(call)
    /\ ev' = [Event(call.op, step, IF ok THEN "resolved" ELSE "rejected",
                    settleResult(call.op, ok), status, call.retry,
                    call.sends, call.refreshes, body, Null, Null)
               EXCEPT !.pre = call.pre]

\* Response interceptor, success handler: the response is passed through.
respondSuccess(call) ==
    /\ AwaitingServer(call)
    /\ \E body \in SuccessBodies(call.op) :
          Settle(call, "settled", TRUE, 200, body, ls)
    /\ UNCHANGED location

\* Response interceptor, error handler.
respondError(call, status) ==
    /\ AwaitingServer(call)
    /\ \/ /\ startsRefresh(status, call.retry, ls)
          /\ calls' = (calls (-) Put(call)) (+)
                      Put([call EXCEPT !.retry = retryFlag(status, @),
                                       !.st = "refreshing",
                                       !.refreshes = @ + 1])
          /\ ev' = Event(call.op, "refreshing", "pending", "pending", status,
                         call.retry, call.sends, call.refreshes + 1,
                         ErrorBody, Null, ls.refreshToken)
          /\ UNCHANGED <<store, authStorage, ls, location>>
       \/ /\ ~startsRefresh(status, call.retry, ls)
          /\ Settle(call, "settled", FALSE, status, ErrorBody, ls)
          /\ UNCHANGED location

\* 401 branch, the refresh call (plain axios, outside the client) succeeded:
\* the new token is stored and the original request is replayed through the
\* client, whose request interceptor runs again.
refreshSucceeded(call) ==
    /\ call.st = "refreshing"
    /\ call.sends < MaxSends
    /\ \E body \in SuccessBodies("refreshToken") :
          /\ ls' = refreshedStorage(ls, body)
          /\ calls' = (calls (-) Put(call)) (+)
                      Put([call EXCEPT !.st = "replayed", !.sends = @ + 1])
          /\ ev' = Event(call.op, "replay", "pending", "pending", 200,
                         call.retry, call.sends + 1, call.refreshes, body,
                         requestInterceptor(
                            ls', JSString(refreshedAccessToken(body))),
                         Null)
    /\ UNCHANGED <<store, authStorage, location>>

\* 401 branch, the refresh call failed: catch (refreshError).
refreshFailed(call) ==
    /\ call.st = "refreshing"
    /\ location' = "/login"
    /\ Settle(call, "refreshFailed", FALSE, 401, ErrorBody, clearTokens(ls))

\* ------------------------------------------------------ synchronous steps
\* The /login route: an authenticated session is sent on to the dashboard.
loginRoute(state) ==
    IF state.isAuthenticated THEN "/dashboard" ELSE "LoginPage"

checkAuth ==
    /\ store' = checkAuthState(store, ls)
    /\ authStorage' = IF Truthy(ls.accessToken) /\ Truthy(ls.user)
                      THEN partialize(store') ELSE authStorage
    /\ calls' = Disturbed
    /\ ev' = Event("checkAuth", "sync", "none", "resolved", 0, FALSE, 0, 0,
                   ErrorBody, Null, Null)
    /\ UNCHANGED <<ls, location>>

\* A page load (a reload, or the navigation the client asked for): the
\* pending work is gone and the store is created again from the snapshot.
restart ==
    /\ store' = rehydrate(authStorage)
    /\ calls' = EmptyBag
    /\ ev' = Event("restart", "restart", "none", "none", 0, FALSE, 0, 0,
                   ErrorBody, Null, Null)
    /\ UNCHANGED <<authStorage, ls, location>>

\* The session layer runs; the resource stores are not driven.
ResourcesIdle == UNCHANGED <<focus, resourceVars>>

Next ==
    \/ login /\ ResourcesIdle
    \/ logout /\ ResourcesIdle
    \/ storeRefreshToken /\ ResourcesIdle
    \/ request /\ ResourcesIdle
    \/ \E call \in InFlight : respondSuccess(call) /\ ResourcesIdle
    \/ \E call \in InFlight, status \in ErrorStatuses :
          respondError(call, status) /\ ResourcesIdle
    \/ \E call \in InFlight : refreshSucceeded(call) /\ ResourcesIdle
    \/ \E call \in InFlight : refreshFailed(call) /\ ResourcesIdle
    \/ checkAuth /\ ResourcesIdle
    \/ restart /\ ResourcesIdle

Spec == Init /\ [][Next]_vars

\* ==================================================================
\* Resource stores
\* ==================================================================
DataBody(payload) == [success |-> TRUE, data |-> payload]

\* error.response?.data?.error || fallback
errorMessage(serverError, fallback) ==
    IF Truthy(serverError) THEN serverError ELSE fallback

Fallback(op) ==
    CASE op = "fetchUsers" -> "Failed to fetch users"
      [] op = "fetchUserById" -> "Failed to fetch user"
      [] op = "createUser" -> "Failed to create user"
      [] op = "updateUser" -> "Failed to update user"
      [] op = "deleteUser" -> "Failed to delete user"
      [] op = "fetchRoles" -> "Failed to fetch roles"
      [] op = "fetchPermissions" -> "Failed to fetch permissions"
      [] op = "createRole" -> "Failed to create role"
      [] op = "createPermission" -> "Failed to create permission"
      [] op = "assignRole" -> "Failed to assign role"
      [] op = "revokeRole" -> "Failed to revoke role"
      [] OTHER -> Null

\* The operations whose catch block ends with throw error.
Rethrows(op) ==
    op \in {"createUser", "updateUser", "deleteUser", "createRole",
            "createPermission", "assignRole", "revokeRole"}

\* set({ isLoading: true, error: null })
startLoading(state) == [state EXCEPT !.isLoading = TRUE, !.error = Null]

\* Mutant: the catch block records the error and leaves the flag alone.
failedStateKeepsLoading(state, message) == [state EXCEPT !.error = message]

\* set({ error: message, isLoading: false })
failedState(state, message) ==
    [state EXCEPT !.error = message, !.isLoading = FALSE]

\* ------------------------------------------------------------ user store
fetchUsersSuccessMerges(state, body) ==
    [state EXCEPT !.users = state.users \o Get(body, "data"),
                  !.isLoading = FALSE]

\* Mutant: a response with fewer records than the list held is taken for
\* a stale one and dropped.
fetchUsersSuccessKeepsLonger(state, body) ==
    [state EXCEPT !.users = IF Len(Get(body, "data")) < Len(state.users)
                            THEN state.users ELSE Get(body, "data"),
                  !.isLoading = FALSE]

\* set({ users: response.data || [], isLoading: false })
fetchUsersSuccess(state, body) ==
    [state EXCEPT !.users = IF "data" \in DOMAIN body THEN body.data ELSE <<>>,
                  !.isLoading = FALSE]

fetchUserByIdSuccess(state, body) ==
    [state EXCEPT !.currentUser = Get(body, "data"), !.isLoading = FALSE]

createUserSuccessPrepends(state, body) ==
    [state EXCEPT !.users = <<Get(body, "data")>> \o state.users,
                  !.isLoading = FALSE]

createUserSuccess(state, body) ==
    [state EXCEPT !.users = Append(state.users, Get(body, "data")),
                  !.isLoading = FALSE]

updateUserSuccessSetsCurrent(state, userId, body) ==
    LET updatedUser == Get(body, "data") IN
    [state EXCEPT
        !.users = [i \in DOMAIN state.users |->
                      IF state.users[i].userId = userId THEN updatedUser
                      ELSE state.users[i]],
        !.currentUser = updatedUser,
        !.isLoading = FALSE]

updateUserSuccess(state, userId, body) ==
    LET updatedUser == Get(body, "data") IN
    [state EXCEPT
        !.users = [i \in DOMAIN state.users |->
                      IF state.users[i].userId = userId THEN updatedUser
                      ELSE state.users[i]],
        !.currentUser = IF state.currentUser.userId = userId
                        THEN updatedUser ELSE state.currentUser,
        !.isLoading = FALSE]

\* state.users.filter((user) => user.userId !== userId)
Without(users, userId) ==
    LET Other(user) == user.userId # userId IN SelectSeq(users, Other)

deleteUserSuccessKeepsCurrent(state, userId) ==
    [state EXCEPT !.users = Without(state.users, userId), !.isLoading = FALSE]

deleteUserSuccess(state, userId) ==
    [state EXCEPT
        !.users = Without(state.users, userId),
        !.currentUser = IF state.currentUser.userId = userId
                        THEN NullUser ELSE state.currentUser,
        !.isLoading = FALSE]

userFailureStateRollsBack(state, message) ==
    [state EXCEPT !.users = <<>>, !.error = message, !.isLoading = FALSE]

\* The catch blocks of the user store.
userFailureState(state, message) == failedState(state, message)

userSuccessState(call, body, state) ==
    CASE call.op = "fetchUsers" -> fetchUsersSuccess(state, body)
      [] call.op = "fetchUserById" -> fetchUserByIdSuccess(state, body)
      [] call.op = "createUser" -> createUserSuccess(state, body)
      [] call.op = "updateUser" -> updateUserSuccess(state, call.userId, body)
      [] call.op = "deleteUser" -> deleteUserSuccess(state, call.userId)

\* ---------------------------------------------------------------- backend
Known(db, userId) == \E i \in DOMAIN db : db[i].userId = userId
Record(db, userId) == db[CHOOSE i \in DOMAIN db : db[i].userId = userId]

\* Can the backend carry the request out?
Servable(call, srv) ==
    CASE call.op = "createUser" -> srv.nextId <= MaxUsers
      [] call.op \in {"fetchUserById", "updateUser", "deleteUser"} ->
           Known(srv.users, call.userId)
      [] OTHER -> TRUE

\* The backend after the request: a created user gets a fresh id and goes
\* last, an update keeps the record's place.
serverAfter(call, srv) ==
    CASE call.op = "createUser" ->
           [srv EXCEPT !.users = Append(@, User(srv.nextId, call.name)),
                       !.nextId = @ + 1]
      [] call.op = "updateUser" ->
           [srv EXCEPT !.users = [i \in DOMAIN @ |->
                          IF @[i].userId = call.userId
                          THEN User(call.userId, call.name) ELSE @[i]]]
      [] call.op = "deleteUser" ->
           [srv EXCEPT !.users = Without(@, call.userId)]
      [] OTHER -> srv

\* The payload of the backend's answer.
answerRecord(call, srv) ==
    CASE call.op = "createUser" -> User(srv.nextId, call.name)
      [] call.op = "updateUser" -> User(call.userId, call.name)
      [] call.op = "fetchUserById" -> Record(srv.users, call.userId)
      [] OTHER -> NullUser

answerList(call, srv) ==
    IF call.op = "fetchUsers" THEN srv.users ELSE <<>>

answerBody(call) ==
    CASE call.op = "fetchUsers" -> DataBody(call.list)
      [] call.op = "deleteUser" -> PlainBody
      [] OTHER -> DataBody(call.rec)

\* ------------------------------------------------------------------ calls
Waiting == BagToSet(pending)

ResourceCall(st, op, userId, name) ==
    [store |-> st, op |-> op, st |-> "sent", userId |-> userId,
     name |-> name, rec |-> NullUser, list |-> <<>>, granted |-> FALSE]

\* A user-store operation starts: loading is set, the request leaves.
startUserCall(op, userId, name) ==
    /\ focus = "users"
    /\ BagCardinality(pending) < MaxPending
    /\ started < MaxOps
    /\ started' = started + 1
    /\ userStore' = startLoading(userStore)
    /\ pending' = pending (+) Put(ResourceCall("users", op, userId, name))
    /\ rev' = ResourceEvent("users", op, "start", "pending", 0, Null)
    /\ UNCHANGED <<focus, authzStore, server>>

fetchUsers == startUserCall("fetchUsers", 0, Null)

fetchUserById(userId) == startUserCall("fetchUserById", userId, Null)

createUser(name) == startUserCall("createUser", 0, name)

updateUser(userId, name) == startUserCall("updateUser", userId, name)

deleteUser(userId) == startUserCall("deleteUser", userId, Null)

\* The backend carries a request out; its answer is on its way.
serveUserCall(call) ==
    /\ call.store = "users"
    /\ call.st = "sent"
    /\ Servable(call, server)
    /\ server' = serverAfter(call, server)
    /\ pending' = (pending (-) Put(call)) (+)
                  Put([call EXCEPT !.st = "answered",
                                   !.rec = answerRecord(call, server),
                                   !.list = answerList(call, server)])
    /\ UNCHANGED <<focus, userStore, authzStore, started, rev>>

\* The answer arrives: the try block runs to its end.
userCallSucceeds(call) ==
    /\ call.store = "users"
    /\ call.st = "answered"
    /\ userStore' = userSuccessState(call, answerBody(call), userStore)
    /\ pending' = pending (-) Put(call)
    /\ rev' = ResourceEvent("users", call.op, "succeeded", "resolved",
                            call.userId, Null)
    /\ UNCHANGED <<focus, authzStore, server, started>>

\* The request fails (refused by the backend, or lost on the way there or
\* back): the catch block runs.
userCallFails(call, serverError) ==
    /\ call.store = "users"
    /\ userStore' = userFailureState(userStore,
                         errorMessage(serverError, Fallback(call.op)))
    /\ pending' = pending (-) Put(call)
    /\ rev' = ResourceEvent("users", call.op, "failed",
                            IF Rethrows(call.op) THEN "rejected"
                            ELSE "resolved",
                            0, serverError)
    /\ UNCHANGED <<focus, authzStore, server, started>>

\* --------------------------------------------------- authorization store
\* set({ roles: response.data, isLoading: false })
fetchRolesSuccess(state, body) ==
    [state EXCEPT !.roles = Get(body, "data"), !.isLoading = FALSE]

fetchPermissionsSuccess(state, body) ==
    [state EXCEPT !.permissions = Get(body, "data"), !.isLoading = FALSE]

createRoleSuccess(state, body) ==
    [state EXCEPT !.roles = Append(state.roles, Get(body, "data")),
                  !.isLoading = FALSE]

createPermissionSuccess(state, body) ==
    [state EXCEPT !.permissions = Append(state.permissions, Get(body, "data")),
                  !.isLoading = FALSE]

\* { ...cache, [userId]: list }
Spread(cache, userId, list) ==
    [key \in DOMAIN cache \cup {userId} |->
        IF key = userId THEN list ELSE cache[key]]

\* Mutant: the cache is rebuilt with the fetched user only.
fetchUserRolesSuccessDropsOthers(state, userId, body) ==
    [state EXCEPT !.userRoles = Spread(EmptyObject, userId, Get(body, "data"))]

fetchUserRolesSuccess(state, userId, body) ==
    [state EXCEPT !.userRoles = Spread(state.userRoles, userId,
                                       Get(body, "data"))]

fetchUserPermissionsSuccess(state, userId, body) ==
    [state EXCEPT !.userPermissions = Spread(state.userPermissions, userId,
                                             Get(body, "data"))]

\* The operations that open with set({ isLoading: true, error: null }).
SetsLoading(op) ==
    op \in {"fetchRoles", "fetchPermissions", "createRole", "createPermission"}

authzFocus(op) == IF SetsLoading(op) THEN "roles" ELSE "grants"

authzStartState(op, state) ==
    IF SetsLoading(op) THEN startLoading(state) ELSE state

authzSuccessState(call, body, state) ==
    CASE call.op = "fetchRoles" -> fetchRolesSuccess(state, body)
      [] call.op = "fetchPermissions" -> fetchPermissionsSuccess(state, body)
      [] call.op = "createRole" -> createRoleSuccess(state, body)
      [] call.op = "createPermission" -> createPermissionSuccess(state, body)
      [] call.op = "fetchUserRoles" ->
           fetchUserRolesSuccess(state, call.userId, body)
      [] call.op = "fetchUserPermissions" ->
           fetchUserPermissionsSuccess(state, call.userId, body)

\* The catch blocks: four set the error field, the others only log or toast.
authzFailureState(op, state, message) ==
    IF SetsLoading(op) THEN failedState(state, message) ELSE state

\* ------------------------------------------- backend: roles and grants
Has(list, item) == \E i \in DOMAIN list : list[i] = item

Except(list, item) ==
    LET Other(x) == x # item IN SelectSeq(list, Other)

\* Role hierarchy of the backend: "ro2" includes "ro1", so granting "ro2"
\* grants "ro1" as well.
Implied(roleId) == IF roleId = "ro2" THEN {"ro1"} ELSE {}

Granting(list, roleId) == IF Has(list, roleId) THEN list ELSE Append(list, roleId)

RECURSIVE GrantingAll(_, _)
GrantingAll(list, roleIds) ==
    IF roleIds = {} THEN list
    ELSE LET r == CHOOSE r \in roleIds : TRUE
         IN GrantingAll(Granting(list, r), roleIds \ {r})

grantsWith(list, roleId) == GrantingAll(Granting(list, roleId), Implied(roleId))

authzServable(call, srv) ==
    CASE call.op = "createRole" -> ~Has(srv.roles, call.name)
      [] call.op = "createPermission" -> ~Has(srv.permissions, call.name)
      [] call.op = "revokeRole" /\ call.st = "sent" ->
           Has(srv.grants[call.userId], call.name)
      [] OTHER -> TRUE

authzServerAfter(call, srv) ==
    CASE call.op = "createRole" -> [srv EXCEPT !.roles = Append(@, call.name)]
      [] call.op = "createPermission" ->
           [srv EXCEPT !.permissions = Append(@, call.name)]
      [] call.op = "assignRole" /\ call.st = "sent" ->
           [srv EXCEPT !.grants[call.userId] = grantsWith(@, call.name)]
      [] call.op = "revokeRole" /\ call.st = "sent" ->
           [srv EXCEPT !.grants[call.userId] = Except(@, call.name)]
      [] OTHER -> srv

\* Any role carries the permission.
permissionsOf(srv, userId) ==
    IF srv.grants[userId] = <<>> THEN <<>> ELSE <<"p1">>

\* POST /authorization/check-permission
hasPermission(srv, userId) == permissionsOf(srv, userId) # <<>>

authzAnswerList(call, srv) ==
    CASE call.op = "fetchRoles" -> srv.roles
      [] call.op = "fetchPermissions" -> srv.permissions
      [] call.op = "fetchUserRoles" \/ call.st = "refetch" ->
           srv.grants[call.userId]
      [] call.op = "fetchUserPermissions" -> permissionsOf(srv, call.userId)
      [] OTHER -> <<>>

authzAnswerBody(call) ==
    CASE call.op \in {"createRole", "createPermission"} -> DataBody(call.name)
      [] call.op = "checkPermission" ->
           DataBody([hasPermission |-> call.granted])
      [] call.op \in {"assignRole", "revokeRole"} /\ call.st = "answered" ->
           PlainBody
      [] OTHER -> DataBody(call.list)

ChangesRole(op) == op \in {"assignRole", "revokeRole"}

\* An authorization-store operation starts.
\* assignRole and revokeRole send two requests: the change, then the
\* role list of the user.
requestsOf(op) == IF ChangesRole(op) THEN 2 ELSE 1

startAuthzCall(op, userId, name) ==
    /\ focus = authzFocus(op)
    /\ BagCardinality(pending) < MaxPending
    /\ started + requestsOf(op) <= MaxOps
    /\ started' = started + requestsOf(op)
    /\ authzStore' = authzStartState(op, authzStore)
    /\ pending' = pending (+) Put(ResourceCall("authorization", op, userId,
                                               name))
    /\ rev' = ResourceEvent("authorization", op, "start", "pending", Null,
                            Null)
    /\ UNCHANGED <<focus, userStore, server>>

fetchRoles == startAuthzCall("fetchRoles", Null, Null)

fetchPermissions == startAuthzCall("fetchPermissions", Null, Null)

createRole(roleId) == startAuthzCall("createRole", Null, roleId)

createPermission(permissionId) ==
    startAuthzCall("createPermission", Null, permissionId)

assignRole(userId, roleId) == startAuthzCall("assignRole", userId, roleId)

revokeRole(userId, roleId) == startAuthzCall("revokeRole", userId, roleId)

fetchUserRoles(userId) == startAuthzCall("fetchUserRoles", userId, Null)

fetchUserPermissions(userId) ==
    startAuthzCall("fetchUserPermissions", userId, Null)

checkPermission(userId) == startAuthzCall("checkPermission", userId, Null)

\* The backend carries out a request of the authorization store: the
\* operation's own, or the role list assignRole and revokeRole ask for next.
serveAuthzCall(call) ==
    /\ call.store = "authorization"
    /\ call.st \in {"sent", "refetch"}
    /\ authzServable(call, server)
    /\ server' = authzServerAfter(call, server)
    /\ pending' = (pending (-) Put(call)) (+)
                  Put([call EXCEPT
                          !.st = IF call.st = "sent" THEN "answered"
                                 ELSE "refetched",
                          !.list = authzAnswerList(call, server),
                          !.granted = call.op = "checkPermission"
                                      /\ hasPermission(server, call.userId)])
    /\ UNCHANGED <<focus, userStore, authzStore, started, rev>>

\* The answer arrives and the try block runs to its end.
authzCallSucceeds(call) ==
    /\ call.store = "authorization"
    /\ call.st = "answered"
    /\ ~ChangesRole(call.op)
    /\ call.op # "checkPermission"
    /\ authzStore' = authzSuccessState(call, authzAnswerBody(call), authzStore)
    /\ pending' = pending (-) Put(call)
    /\ rev' = ResourceEvent("authorization", call.op, "succeeded", "resolved",
                            call.userId, Null)
    /\ UNCHANGED <<focus, userStore, server, started>>

\* assignRole / revokeRole: the backend confirmed the change, and the
\* operation goes on to await get().fetchUserRoles(userId).
roleChangeConfirmed(call) ==
    /\ call.store = "authorization"
    /\ call.st = "answered"
    /\ ChangesRole(call.op)
    /\ pending' = (pending (-) Put(call)) (+)
                  Put([call EXCEPT !.st = "refetch", !.list = <<>>])
    /\ rev' = ResourceEvent("authorization", call.op, "confirmed", "pending",
                            call.userId, Null)
    /\ UNCHANGED <<focus, userStore, authzStore, server, started>>

\* The nested fetchUserRoles ends (it swallows its own failure), and
\* assignRole / revokeRole resolves.
userRolesRefetched(call, ok) ==
    /\ call.store = "authorization"
    /\ \/ ok /\ call.st = "refetched"
       \/ ~ok /\ call.st \in {"refetch", "refetched"}
    /\ authzStore' = IF ok
                     THEN fetchUserRolesSuccess(authzStore, call.userId,
                                                authzAnswerBody(call))
                     ELSE authzStore
    /\ pending' = pending (-) Put(call)
    /\ rev' = ResourceEvent("authorization", call.op,
                            IF ok THEN "succeeded" ELSE "refetchFailed",
                            "resolved", call.userId, Null)
    /\ UNCHANGED <<focus, userStore, server, started>>

\* Mutant: the failure of the check reaches the caller.
checkPermissionResultThrows(ok, body) ==
    IF ok THEN <<"resolved", Get(Get(body, "data"), "hasPermission")>>
    ELSE <<"rejected", Undefined>>

\* checkPermission: return response.data.hasPermission, or false from the
\* catch block.  The outcome of the promise and the value returned.
checkPermissionResult(ok, body) ==
    IF ok THEN <<"resolved", Get(Get(body, "data"), "hasPermission")>>
    ELSE <<"resolved", FALSE>>

\* checkPermission ends: its request was answered, or it failed.
permissionChecked(call, ok) ==
    /\ call.store = "authorization"
    /\ call.op = "checkPermission"
    /\ \/ ok /\ call.st = "answered"
       \/ ~ok /\ call.st \in {"sent", "answered"}
    /\ pending' = pending (-) Put(call)
    /\ LET result == checkPermissionResult(
                         ok, IF ok THEN authzAnswerBody(call) ELSE ErrorBody)
       IN rev' = [ResourceEvent("authorization", call.op,
                                IF ok THEN "succeeded" ELSE "failed",
                                result[1], call.userId, Null)
                     EXCEPT !.value = result[2]]
    /\ UNCHANGED <<focus, userStore, authzStore, server, started>>

\* The operation's own request fails: the catch block runs.
authzCallFails(call, serverError) ==
    /\ call.store = "authorization"
    /\ call.st \in {"sent", "answered"}
    /\ call.op # "checkPermission"
    /\ authzStore' = authzFailureState(call.op, authzStore,
                         errorMessage(serverError, Fallback(call.op)))
    /\ pending' = pending (-) Put(call)
    /\ rev' = ResourceEvent("authorization", call.op, "failed",
                            IF Rethrows(call.op) THEN "rejected"
                            ELSE "resolved",
                            Null,
                            IF call.op \in {"fetchUserRoles",
                                            "fetchUserPermissions"}
                            THEN Null ELSE serverError)
    /\ UNCHANGED <<focus, userStore, server, started>>

ResourceInit ==
    /\ store = InitialState
    /\ authStorage = partialize(InitialState)
    /\ ls = [accessToken |-> Null, refreshToken |-> Null, user |-> Null]
    /\ location = "/"
    /\ calls = EmptyBag
    /\ ev = Event("none", "init", "none", "none", 0, FALSE, 0, 0, ErrorBody,
                  Null, Null)
    /\ focus \in {"users", "roles", "grants"}
    /\ ResourcesAtRest

SessionIdle == UNCHANGED sessionVars

ResourceNext ==
    \/ fetchUsers /\ SessionIdle
    \/ \E userId \in UserIds : fetchUserById(userId) /\ SessionIdle
    \/ \E name \in NewNames : createUser(name) /\ SessionIdle
    \/ \E userId \in UserIds, name \in UserNames :
          updateUser(userId, name) /\ SessionIdle
    \/ \E userId \in UserIds : deleteUser(userId) /\ SessionIdle
    \/ \E call \in Waiting : serveUserCall(call) /\ SessionIdle
    \/ \E call \in Waiting : userCallSucceeds(call) /\ SessionIdle
    \/ \E call \in Waiting, e \in ServerErrors :
          userCallFails(call, e) /\ SessionIdle
    \/ fetchRoles /\ SessionIdle
    \/ fetchPermissions /\ SessionIdle
    \/ \E roleId \in RoleIds : createRole(roleId) /\ SessionIdle
    \/ \E permissionId \in PermissionIds :
          createPermission(permissionId) /\ SessionIdle
    \/ \E userId \in Subjects, roleId \in RoleIds :
          assignRole(userId, roleId) /\ SessionIdle
    \/ \E userId \in Subjects, roleId \in RoleIds :
          revokeRole(userId, roleId) /\ SessionIdle
    \/ \E userId \in Subjects : fetchUserRoles(userId) /\ SessionIdle
    \/ \E userId \in Subjects : fetchUserPermissions(userId) /\ SessionIdle
    \/ \E userId \in Subjects : checkPermission(userId) /\ SessionIdle
    \/ \E call \in Waiting : serveAuthzCall(call) /\ SessionIdle
    \/ \E call \in Waiting : authzCallSucceeds(call) /\ SessionIdle
    \/ \E call \in Waiting : roleChangeConfirmed(call) /\ SessionIdle
    \/ \E call \in Waiting, ok \in BOOLEAN :
          userRolesRefetched(call, ok) /\ SessionIdle
    \/ \E call \in Waiting, e \in ServerErrors :
          authzCallFails(call, e) /\ SessionIdle
    \/ \E call \in Waiting, ok \in BOOLEAN :
          permissionChecked(call, ok) /\ SessionIdle

ResourceSpec == ResourceInit /\ [][ResourceNext]_vars

\* ==================================================================
\* Properties
\* ==================================================================
Settled == ev.res \in {"resolved", "rejected"}
Anonymous(state) ==
    /\ state.user = Null
    /\ state.token = Null
    /\ state.refreshToken = Null
    /\ ~state.isAuthenticated
KeysRemoved ==
    ls.accessToken = Null /\ ls.refreshToken = Null /\ ls.user = Null

\* C1: in every reachable state of the session store, isAuthenticated is
\* true if and only if both user and token are non-null.
C1_AuthenticatedIffUserAndToken ==
    store.isAuthenticated <=> (store.user # Null /\ store.token # Null)

\* C1, witness: an authenticated session restored by rehydration.
C1_Witness ==
    ev.step = "restart" /\ store.isAuthenticated /\ store.user # Null

\* C2: every completed logout, whether its server call succeeded, failed or
\* was not made, ends with user, token and refreshToken null,
\* isAuthenticated and isLoading false and the persisted keys accessToken,
\* refreshToken and user removed, and it resolves to its caller.
C2_LogoutAlwaysClears ==
    (ev.op = "logout" /\ Settled) =>
        /\ Anonymous(store)
        /\ ~store.isLoading
        /\ KeysRemoved
        /\ ev.res = "resolved"

\* C2, witness: a logout has completed although its server call failed.
C2_Witness == ev.op = "logout" /\ Settled /\ ev.http = "rejected"

\* C3: for every request sent through the client the client makes at most
\* one refresh call and at most one replay, so the request settles after at
\* most two sends; a response to a request already flagged as a retry never
\* starts a refresh.
C3_AtMostOneRefreshAndReplay ==
    /\ \A call \in InFlight :
          /\ call.sends <= 2
          /\ call.refreshes <= 1
          /\ call.st = "sent" => call.sends = 1 /\ call.refreshes = 0
          /\ call.st = "refreshing" => call.sends = 1 /\ call.retry
          /\ call.st = "replayed" => call.retry
    /\ ev.step = "refreshing" => ~ev.wasRetry /\ ev.refreshes = 1
    /\ ev.http \in {"resolved", "rejected"} =>
          ev.sends <= 2 /\ ev.refreshes <= 1

\* C3, witness: the replay of a request was answered 401 and the request
\* settled there, after two sends and one refresh.
C3_Witness ==
    /\ ev.step = "settled"
    /\ ev.wasRetry
    /\ ev.status = 401
    /\ ev.sends = 2
    /\ ev.refreshes = 1

\* C4 (as claimed): when a request gets 401, the refresh succeeds and the
\* replay gets 401 too, the persisted accessToken, refreshToken and user keys
\* are cleared, navigation to the login entry point is triggered and the
\* session is anonymous.
C4_SecondUnauthorizedClears ==
    (ev.step = "settled" /\ ev.wasRetry /\ ev.status = 401 /\ ev.sends = 2) =>
        /\ KeysRemoved
        /\ location = "/login"
        /\ ~store.isAuthenticated

IssuedAccessToken(body) == Get(Get(body, "data"), "accessToken")

\* C5 (as claimed): a 401 on a request not yet retried, with a refresh token
\* stored, makes one refresh call with that token; on its success the access
\* token issued inside the enveloped response data is what is written to the
\* persisted accessToken key and what the single replay carries as Bearer
\* token; a replay answered 200 resolves to the caller.
C5_ReplayCarriesIssuedToken ==
    /\ ev.step = "refreshing" => ev.rt = ls.refreshToken /\ ev.refreshes = 1
    /\ ev.step = "replay" =>
          /\ ls.accessToken = IssuedAccessToken(ev.body)
          /\ ev.bearer = IssuedAccessToken(ev.body)
          /\ ev.sends = 2
    /\ (ev.step = "settled" /\ ev.wasRetry /\ ev.status = 200) =>
          ev.http = "resolved"

\* C6: when a request gets 401 and the refresh call fails, the persisted
\* accessToken, refreshToken and user keys are removed, navigation to /login
\* is triggered, the request is not replayed and the client rejects.
C6_RefreshFailureClears ==
    ev.step = "refreshFailed" =>
        /\ KeysRemoved
        /\ location = "/login"
        /\ ev.sends = 1
        /\ ev.http = "rejected"

\* C6, witness: the refresh call of a plain request failed.
C6_Witness == ev.step = "refreshFailed" /\ ev.op = "request"

\* C7: after login succeeds, isAuthenticated is true, user, token and
\* refreshToken are the server-returned values, the persisted accessToken and
\* refreshToken keys hold the same tokens and isLoading is false.
C7_LoginSuccess ==
    (ev.op = "login" /\ ev.res = "resolved") =>
        LET data == ev.body.data IN
        /\ store.isAuthenticated
        /\ store.user = data.userInfo
        /\ store.token = data.accessToken
        /\ store.refreshToken = data.refreshToken
        /\ ls.accessToken = data.accessToken
        /\ ls.refreshToken = data.refreshToken
        /\ ~store.isLoading

\* C7, witness: a login has succeeded.
C7_Witness ==
    ev.op = "login" /\ ev.res = "resolved" /\ ev.body.data.accessToken = "a2"

\* C8 (as claimed): after login fails with any error status, 401 with a
\* previous session's credentials stored included, user, token, refreshToken
\* and isAuthenticated and the persisted accessToken and refreshToken keys
\* have the values they had before the call, isLoading is false and the
\* failure is re-raised.  (Stated of a login during which nothing else ran.)
C8_FailedLoginKeepsCredentials ==
    (ev.op = "login" /\ ev.http = "rejected" /\ ev.pre # NoPre) =>
        /\ partialize(store) = ev.pre.store
        /\ ls.accessToken = ev.pre.ls.accessToken
        /\ ls.refreshToken = ev.pre.ls.refreshToken
        /\ ~store.isLoading
        /\ ev.res = "rejected"

\* C9: refreshToken() called while the store holds no refresh token fails at
\* once, issues no request and leaves the session state unchanged; it issues
\* a request only when a refresh token is held.
C9_NoRefreshTokenFailsFast ==
    [][/\ (ev'.op = "refreshToken" /\ ev'.step = "noRequest") =>
             /\ ~Truthy(store.refreshToken)
             /\ ev'.res = "rejected"
             /\ UNCHANGED <<store, authStorage, ls, location, calls>>
       /\ (ev'.op = "refreshToken" /\ ev'.step = "start") =>
             Truthy(store.refreshToken)]_vars

\* C9, witness: refreshToken() has just failed for want of a refresh token,
\* in a session that is otherwise populated.
C9_Witness ==
    /\ ev.op = "refreshToken"
    /\ ev.step = "noRequest"
    /\ store.refreshToken = Null
    /\ store.token # Null

\* C10 (as claimed): when the store's refreshToken() fails at the refresh
\* endpoint, user, token and refreshToken are null, isAuthenticated is false,
\* no access or refresh token is left in persisted storage (so that later
\* requests carry no Bearer token) and the error is re-raised.
C10_FailedRefreshClearsEverything ==
    (ev.op = "refreshToken" /\ ev.http = "rejected") =>
        /\ Anonymous(store)
        /\ ls.accessToken = Null
        /\ ls.refreshToken = Null
        /\ requestInterceptor(ls, Null) = Null
        /\ ev.res = "rejected"

\* C11: when the store's refreshToken() succeeds, token and user become the
\* server-returned accessToken and userInfo, isAuthenticated becomes true,
\* the persisted accessToken key is set to the new token, and the stored
\* refreshToken and isLoading are left as they were.
C11_RefreshSuccessInPlace ==
    [][(ev'.op = "refreshToken" /\ ev'.res = "resolved") =>
          LET data == ev'.body.data IN
          /\ store'.token = data.accessToken
          /\ store'.user = data.userInfo
          /\ store'.isAuthenticated
          /\ ls'.accessToken = data.accessToken
          /\ store'.refreshToken = store.refreshToken
          /\ store'.isLoading = store.isLoading]_vars

\* C11, witness: refreshToken() has succeeded while a login was loading.
C11_Witness ==
    /\ ev.op = "refreshToken"
    /\ ev.res = "resolved"
    /\ store.isLoading
    /\ store.refreshToken # Null

SnapshotFields == {"user", "token", "refreshToken", "isAuthenticated"}

\* C12: the persisted 'auth-storage' snapshot always holds exactly user,
\* token, refreshToken and isAuthenticated with their current values and
\* never isLoading; a restart with rehydration yields a session whose four
\* persisted fields equal the snapshot, with isLoading false, and issues no
\* network call.
C12_SnapshotIsThePersistedSubset ==
    /\ DOMAIN authStorage = SnapshotFields
    /\ \A f \in SnapshotFields : authStorage[f] = store[f]
    /\ ev.step = "restart" => ~store.isLoading /\ calls = EmptyBag

\* C12, witness: a session with a refresh token has been rehydrated.
C12_Witness ==
    /\ ev.step = "restart"
    /\ authStorage.refreshToken # Null
    /\ store.refreshToken = authStorage.refreshToken

C25_LogoutIsFinal ==
    [][ev.op = "logout" /\ ev.res = "resolved" =>
          /\ ~store'.isAuthenticated
          /\ store'.token = Null
          /\ ls'.accessToken = Null]_vars

\* C26: whenever no operation or request is in flight, the store's token
\* and the persisted accessToken key agree, and so do the store's
\* refreshToken and the persisted refreshToken key.
C26_StoreAndStorageAgree ==
    NoneActive =>
        /\ store.token = ls.accessToken
        /\ store.refreshToken = ls.refreshToken

\* C27: after the client has cleared the credentials and redirected to
\* /login, the session rehydrated by the page load is not authenticated, so
\* the /login route renders the login screen.
C27_LoginScreenAfterForcedLogout ==
    [][ev.step = "refreshFailed" /\ ev'.op = "restart" =>
          /\ ~store'.isAuthenticated
          /\ loginRoute(store') = "LoginPage"]_vars

\* C28: when a 401 arrives and no refresh token is in persisted storage,
\* the client makes no refresh call and no replay, leaves the persisted keys
\* as they are (a logout, which removes them itself, excepted), does not
\* navigate, and rejects with the 401.
C28_UnauthorizedWithoutRefreshToken ==
    [][/\ ev'.status = 401
       /\ ev'.step \in {"settled", "refreshing"}
       /\ ~Truthy(ls.refreshToken)
       => /\ ev'.step = "settled"
          /\ ev'.http = "rejected"
          /\ \E call \in InFlight :
                /\ calls' = calls (-) Put(call)
                /\ ev'.refreshes = call.refreshes
                /\ ev'.sends = call.sends
          /\ \A call \in BagToSet(calls') : call \in InFlight
          /\ location' = location
          /\ ev'.op # "logout" => ls' = ls]_vars

C28_Witness ==
    /\ ev.op = "request"
    /\ ev.status = 401
    /\ ev.step = "settled"
    /\ ~ev.wasRetry
    /\ ev.refreshes = 0
    /\ ls.refreshToken = Null
    /\ ls.accessToken # Null

\* ==================================================================
\* Properties of the resource stores
\* ==================================================================
\* The step starts an operation `op` of store `st`.
Begun(st, op) ==
    \E call \in BagToSet(pending') :
        /\ pending' = pending (+) Put(call)
        /\ call.store = st
        /\ call.op = op

\* The step applies the successful answer of `call`.
Delivered(call) ==
    /\ pending' = pending (-) Put(call)
    /\ rev'.step = "succeeded"
    /\ rev'.op = call.op

\* The step runs the catch block of `call`.
Rejected(call) ==
    /\ pending' = pending (-) Put(call)
    /\ rev'.step = "failed"
    /\ rev'.op = call.op

\* `after` is `before` with `x` added at the end.
AppendedAtEnd(before, after, x) ==
    /\ Len(after) = Len(before) + 1
    /\ \A i \in DOMAIN before : after[i] = before[i]
    /\ after[Len(after)] = x

UserMutations == {"createUser", "updateUser", "deleteUser"}

\* C14: when createUser (createRole, createPermission) succeeds with the
\* server-returned record X, the local collection is the collection as it
\* was just before the response was applied with X added at the end.
C14_CreateAppendsAtEnd ==
    [][\A call \in Waiting : Delivered(call) =>
          /\ call.op = "createUser" =>
               AppendedAtEnd(userStore.users, userStore'.users, call.rec)
          /\ call.op = "createRole" =>
               AppendedAtEnd(authzStore.roles, authzStore'.roles, call.name)
          /\ call.op = "createPermission" =>
               AppendedAtEnd(authzStore.permissions, authzStore'.permissions,
                             call.name)]_vars

C14_Witness ==
    /\ rev.op = "createUser"
    /\ rev.step = "succeeded"
    /\ Len(userStore.users) = 2
    /\ userStore.users[1].userId # userStore.users[2].userId

\* C15: in every reachable state of the user store the users collection
\* holds at most one record per userId (the backend gives each created user
\* a fresh id and its lists are duplicate-free).
C15_UsersUniqueById ==
    \A i, j \in DOMAIN userStore.users :
        userStore.users[i].userId = userStore.users[j].userId => i = j

\* C16: when updateUser(Y, patch) succeeds, users keeps its length and
\* order, every record with userId Y is replaced in place by the
\* server-returned record, the other records are unchanged, currentUser
\* becomes the server-returned record iff it had userId Y, and nothing is
\* added when Y is not in the collection.
C16_UpdateReplacesInPlace ==
    [][\A call \in Waiting : Delivered(call) /\ call.op = "updateUser" =>
          /\ Len(userStore'.users) = Len(userStore.users)
          /\ \A i \in DOMAIN userStore.users :
                userStore'.users[i] =
                    IF userStore.users[i].userId = call.userId
                    THEN call.rec ELSE userStore.users[i]
          /\ userStore'.currentUser =
                IF userStore.currentUser.userId = call.userId
                THEN call.rec ELSE userStore.currentUser]_vars

C16_Witness ==
    /\ rev.op = "updateUser"
    /\ rev.step = "succeeded"
    /\ Len(userStore.users) = 2
    /\ userStore.users[1].userId = rev.userId
    /\ userStore.users[1].name = "n2"
    /\ userStore.users[2].userId # rev.userId
    /\ userStore.currentUser = userStore.users[1]

\* C17: when deleteUser(Z) succeeds, no record with userId Z remains in
\* users, the other records keep their relative order, and currentUser is
\* null if it had userId Z and unchanged otherwise.
C17_DeleteRemovesOnlyThatUser ==
    [][\A call \in Waiting : Delivered(call) /\ call.op = "deleteUser" =>
          /\ \A i \in DOMAIN userStore'.users :
                userStore'.users[i].userId # call.userId
          /\ LET Kept(user) == user.userId # call.userId
             IN userStore'.users = SelectSeq(userStore.users, Kept)
          /\ userStore'.currentUser =
                IF userStore.currentUser.userId = call.userId
                THEN NullUser ELSE userStore.currentUser]_vars

C17_Witness ==
    /\ rev.op = "deleteUser"
    /\ rev.step = "succeeded"
    /\ server.nextId = 3
    /\ Len(server.users) = 1
    /\ userStore.users = server.users
    /\ userStore.currentUser = NullUser

\* C18: a createUser, updateUser or deleteUser call changes neither users
\* nor currentUser when it starts or while the backend handles it, and when
\* it is rejected users and currentUser stay as they were: only isLoading
\* and error change.
C18_MutationsWaitForTheServer ==
    [][/\ (\E op \in UserMutations : Begun("users", op)) =>
             /\ userStore'.users = userStore.users
             /\ userStore'.currentUser = userStore.currentUser
       /\ \A call \in Waiting : call.op \in UserMutations =>
             /\ call.st = "sent" /\ serveUserCall(call) =>
                   userStore' = userStore
             /\ Rejected(call) =>
                   /\ userStore'.users = userStore.users
                   /\ userStore'.currentUser = userStore.currentUser]_vars

C18_Witness ==
    /\ rev.op \in UserMutations
    /\ rev.step = "failed"
    /\ rev.res = "rejected"
    /\ userStore.users # <<>>
    /\ userStore.currentUser # NullUser

FetchedCollection(op, us, az) ==
    CASE op = "fetchUsers" -> us.users
      [] op = "fetchRoles" -> az.roles
      [] op = "fetchPermissions" -> az.permissions

LoadingAndError(op, us, az) ==
    IF op = "fetchUsers" THEN <<us.isLoading, us.error>>
    ELSE <<az.isLoading, az.error>>

CollectionFetches == {"fetchUsers", "fetchRoles", "fetchPermissions"}

\* C19: fetchUsers (fetchRoles, fetchPermissions) sets isLoading true and
\* error null when it starts; on success the collection becomes the list
\* the server returned, in the server's order; on failure the collection is
\* unchanged, error is the server's message or the generic fallback, and
\* the call resolves; in both cases isLoading is false afterwards.
C19_FetchReplacesOrRecordsError ==
    [][/\ \A op \in CollectionFetches :
             Begun(IF op = "fetchUsers" THEN "users" ELSE "authorization", op)
             => LoadingAndError(op, userStore', authzStore') = <<TRUE, Null>>
       /\ \A call \in Waiting : call.op \in CollectionFetches =>
             /\ Delivered(call) =>
                   /\ FetchedCollection(call.op, userStore', authzStore')
                         = call.list
                   /\ LoadingAndError(call.op, userStore', authzStore')[1]
                         = FALSE
                   /\ rev'.res = "resolved"
             /\ Rejected(call) =>
                   /\ FetchedCollection(call.op, userStore', authzStore')
                         = FetchedCollection(call.op, userStore, authzStore)
                   /\ LoadingAndError(call.op, userStore', authzStore')
                         = <<FALSE,
                             IF rev'.serverError = "E" THEN "E"
                             ELSE Fallback(call.op)>>
                   /\ rev'.res = "resolved"]_vars

C19_Witness ==
    /\ rev.op = "fetchUsers"
    /\ rev.step = "succeeded"
    /\ Len(userStore.users) = 2
    /\ userStore.users = server.users
    /\ ~userStore.isLoading

ErrorOf(st) == IF st = "users" THEN userStore.error ELSE authzStore.error

\* C20: when a store operation fails at the server, its store's error
\* field holds a non-null message; a fetch-type operation resolves, a
\* mutation-type operation rejects to the caller.
C20_FailureRecordsError ==
    rev.step = "failed" /\ rev.op # "checkPermission" =>
        /\ ErrorOf(rev.store) # Null
        /\ rev.res = IF Rethrows(rev.op) THEN "rejected" ELSE "resolved"

\* C21: checkPermission never rejects; it returns the hasPermission value
\* the server answered when its call succeeds and false when the call
\* fails, and neither its start nor its end changes a field of the
\* authorization store.
C21_CheckPermissionFailsClosed ==
    [][/\ Begun("authorization", "checkPermission") => authzStore' = authzStore
       /\ \A call \in Waiting :
             call.op = "checkPermission" /\ pending' = pending (-) Put(call) =>
                /\ authzStore' = authzStore
                /\ rev'.op = "checkPermission"
                /\ rev'.res = "resolved"
                /\ rev'.value = IF rev'.step = "succeeded" THEN call.granted
                                ELSE FALSE]_vars

C21_Witness ==
    /\ rev.op = "checkPermission"
    /\ rev.step = "succeeded"
    /\ rev.value = TRUE
    /\ pending # EmptyBag

\* C22: whenever assignRole(u, r) or revokeRole(u, r) has resolved to its
\* caller, userRoles[u] is the role list the server holds for u.
C22_ResolvedRoleChangeIsCached ==
    ChangesRole(rev.op) /\ rev.res = "resolved" =>
        /\ rev.userId \in DOMAIN authzStore.userRoles
        /\ authzStore.userRoles[rev.userId] = server.grants[rev.userId]

\* The cache entry of u: a one-element list, empty while u has no entry.
Entry(cache, u) == IF u \in DOMAIN cache THEN <<cache[u]>> ELSE <<>>

\* The step applies to cache entry u the list a fetch `op` (or, with
\* `nested`, the re-fetch of assignRole / revokeRole) returned for u.
FetchApplied(op, nested, u, entry) ==
    \E call \in Waiting :
        /\ pending' = pending (-) Put(call)
        /\ call.userId = u
        /\ \/ call.op = op /\ call.st = "answered"
           \/ nested /\ ChangesRole(call.op) /\ call.st = "refetched"
        /\ entry = <<call.list>>

\* C23: userRoles[u] and userPermissions[u] change only by being replaced
\* with the list a server fetch for u returned (so a fetch for u leaves the
\* other users' entries alone), and assignRole / revokeRole, once their
\* server call is confirmed, issue one re-fetch, for their own u.
C23_CachesReplacedByFetchOnly ==
    [][/\ \A u \in Subjects :
             /\ Entry(authzStore'.userRoles, u) # Entry(authzStore.userRoles, u)
                => FetchApplied("fetchUserRoles", TRUE, u,
                                Entry(authzStore'.userRoles, u))
             /\ Entry(authzStore'.userPermissions, u)
                   # Entry(authzStore.userPermissions, u)
                => FetchApplied("fetchUserPermissions", FALSE, u,
                                Entry(authzStore'.userPermissions, u))
       /\ \A call \in BagToSet(pending') :
             call.st = "refetch"
             /\ CopiesIn(call, pending') > CopiesIn(call, pending) =>
                \E sent \in Waiting :
                    /\ ChangesRole(sent.op)
                    /\ sent.st = "answered"
                    /\ sent.op = call.op
                    /\ sent.userId = call.userId
                    /\ pending' = (pending (-) Put(sent)) (+) Put(call)
       /\ \A sent \in Waiting :
             ChangesRole(sent.op) /\ sent.st = "answered"
             /\ rev'.step = "confirmed"
             /\ CopiesIn(sent, pending') < CopiesIn(sent, pending) =>
                \E call \in BagToSet(pending') :
                    /\ call.st = "refetch"
                    /\ call.userId = sent.userId
                    /\ pending' = (pending (-) Put(sent)) (+) Put(call)]_vars

C23_Witness ==
    /\ ChangesRole(rev.op)
    /\ rev.step = "succeeded"
    /\ DOMAIN authzStore.userRoles = Subjects
    /\ Len(authzStore.userRoles[rev.userId]) = 2
    /\ \E u \in Subjects : Len(authzStore.userRoles[u]) = 1

\* C24: when two fetchUsers calls were in flight together and one has
\* resolved, the response of the other, when it resolves, becomes the users
\* collection whatever it holds: the response that resolves last wins.
C24_LastFetchResponseWins ==
    [][\A call \in Waiting :
          /\ rev.op = "fetchUsers"
          /\ rev.step = "succeeded"
          /\ call.op = "fetchUsers"
          /\ Delivered(call)
          => userStore'.users = call.list]_vars

\* One of two overlapping fetches has resolved with the server's present
\* list; the answer still on its way holds an older list.
C24_Witness ==
    /\ rev.op = "fetchUsers"
    /\ rev.step = "succeeded"
    /\ userStore.users = server.users
    /\ \E call \in Waiting :
          /\ call.op = "fetchUsers"
          /\ call.st = "answered"
          /\ Len(call.list) < Len(userStore.users)

\* C29: in the user store and in the authorization store isLoading is
\* false whenever no operation of the store is in flight.
C29_IdleStoreIsNotLoading ==
    pending = EmptyBag => ~userStore.isLoading /\ ~authzStore.isLoading

C29_Witness ==
    /\ pending = EmptyBag
    /\ rev.step = "failed"
    /\ started >= 2
    /\ focus \in {"users", "roles"}

\* C30: in the user store isLoading is true whenever at least one of its
\* calls is still awaiting its server response.
C30_LoadingWhileAwaiting ==
    focus = "users" /\ pending # EmptyBag => userStore.isLoading

====
